---- MODULE Spec2Model ----
(***************************************************************************)
(* app-fsk: SendFSK / ReceiveFSK applications (app_fsk.c, app_fsk_18.c).    *)
(*                                                                         *)
(* The model follows the two source variants, which differ only in the     *)
(* Asterisk API they call and in the modem preset:                         *)
(*   put_bit     the bit source the FSK modulator pulls from               *)
(*   get_bit     the byte sink the FSK demodulator pushes to               *)
(*   rx_status   the modem status handler                                  *)
(*   fskTX_exec  the SendFSK application                                   *)
(*   fskRX_exec  the ReceiveFSK application                                *)
(***************************************************************************)
EXTENDS Integers, Sequences, FiniteSets

(***************************************************************************)
(* Bounds of the model.                                                    *)
(***************************************************************************)
\* longest message handed to SendFSK
MaxLen == 3
\* put_bit calls made after the transmit buffer is exhausted
MaxIdle == 3
\* size of the receive buffer (the code allocates 655536 bytes)
Capacity == 3
\* get_bit calls made after the receive buffer is full
MaxOver == 1
\* modem status reports delivered to one receive session
MaxStatus == 2
\* inbound frames one ReceiveFSK call reads before the caller hangs up
MaxFrames == 2

(***************************************************************************)
(* C integer arithmetic.                                                   *)
(***************************************************************************)
\* a & b on non-negative operands
RECURSIVE BitAnd(_, _)
BitAnd(a, b) ==
  IF a = 0 \/ b = 0 THEN 0
  ELSE (a % 2) * (b % 2) + 2 * BitAnd(a \div 2, b \div 2)

\* the low 16 bits of the two's complement representation of an int: every
\* bit a mask 1 << 0 .. 1 << 7 can select lies in them
LowBits(x) == x % 65536

\* the value of a byte of memory read through an int8_t pointer
LoadInt8(byte) == IF byte >= 128 THEN byte - 256 ELSE byte

\* the conversion of an int to int8_t (wraps modulo 256)
ToInt8(x) == ((x + 128) % 256) - 128

\* the byte a char holds after "(char) bit & 0xff" is stored into it
ToChar(x) == x % 256

(***************************************************************************)
(* State.                                                                  *)
(***************************************************************************)
VARIABLES
  pc,       \* where the program is: inside a modem callback loop or in a driver
  out,      \* transmit_buffer_t: ptr, bytes2send, current_bit_no, buffer
  bits,     \* the values put_bit has returned so far, in order
  in,       \* receive_buffer_t: ptr, quitoncarrierlost, FSK_eof, buffer
  mem,      \* "ok", "stray" (a store landed outside the receive buffer), "fault"
  pushed,   \* the non-negative values get_bit has been called with, in order
  call,     \* the last modem callback: its name and its argument
  nstatus,  \* how many status reports the receive session has been given
  drv       \* locals of fskTX_exec / fskRX_exec and what they hold

vars == <<pc, out, bits, in, mem, pushed, call, nstatus, drv>>

\* the bytes a C string can hold before its terminating NUL
AllChars == 1..255
\* 'H', 'I', and a byte with its top bit set
SampleChars == {72, 73, 200}

\* the messages handed to put_bit: every one-character message, and longer ones
Messages ==
  [1..1 -> AllChars] \cup UNION { [1..n -> SampleChars] : n \in 2..MaxLen }

NoCall == [op |-> "none", arg |-> 0]
NoTx == [ptr |-> 0, bytes2send |-> 0, current_bit_no |-> 0, buffer |-> <<0>>]
NoRx == [ptr |-> 0, quitoncarrierlost |-> 0, FSK_eof |-> 0,
         buffer |-> [i \in 0..(Capacity - 1) |-> 0]]
\* the locals of an application call, and what the call holds:
\*   app      the application running: "none", "SendFSK", "ReceiveFSK"
\*   res, ret the local res, and the value returned once pc = "done"
\*   why      why the frame loop was left: "sent", "eof", "hangup",
\*            "write_failure", "wait_failure", or why it was never entered
\*   trail    how SendFSK's trailing exchange went
\*   fr       the frame pointer fr / f: "uninit", "null", "live", "freed"
\*   block    put_bit calls per fsk_tx block, need: those still to come
\*   optH, optS, silgen   the options given, the silence generator running
\*   heap     the allocations not yet freed, frames: frames read, not freed
\*   nread    inbound frames read by the receive loop
\*   data     the message SendFSK was called with
\*   nwait    calls of ast_waitfor, nwrite: calls of ast_write
\*   rxpos    the put_bit results a demodulator at the far end has consumed
\*   chanvar  the values the channel variable was set to, in order
NoDrv ==
  [app |-> "none", res |-> 0, ret |-> 0, why |-> "none", trail |-> "none",
   fr |-> "uninit", block |-> 0, need |-> 0,
   optH |-> FALSE, optS |-> FALSE, silgen |-> FALSE,
   heap |-> {}, frames |-> 0, nread |-> 0, chanvar |-> <<>>,
   data |-> <<>>, nwait |-> 0, nwrite |-> 0, rxpos |-> 0]

(***************************************************************************)
(* put_bit: the 8N1 framer.                                                *)
(***************************************************************************)
\* out as fskTX_exec sets it up for a message: data is a C string, so the byte
\* at index strlen(data) is the terminating NUL
NewTx(data) ==
  [ptr |-> 0, bytes2send |-> Len(data), current_bit_no |-> 0,
   buffer |-> Append(data, 0)]

\* *((int8_t *)buffer + ptr)
ByteAt(d) == d.buffer[d.ptr + 1]

\* data = byte & (1 << (current_bit_no - 1)), data being an int8_t
DataBit_msbfirst(byte, bitno) ==
  ToInt8(BitAnd(LowBits(LoadInt8(byte)), 2 ^ (8 - bitno)))
DataBit(byte, bitno) ==
  ToInt8(BitAnd(LowBits(LoadInt8(byte)), 2 ^ (bitno - 1)))

\* return data != 0 ? 1 : 0
Truth_positive(data) == IF data > 0 THEN 1 ELSE 0
Truth(data) == IF data # 0 THEN 1 ELSE 0

\* if (ptr <= bytes2send): the bytes and the terminating NUL are still to send
Live_noterminator(d) == d.ptr < d.bytes2send
Live(d) == d.ptr <= d.bytes2send

\* ++current_bit_no; if (current_bit_no == 10) ptr++;
\* if (current_bit_no == 10) current_bit_no = 0;
\* app_fsk.c writes "current_bit_no = ++current_bit_no": both stores put the
\* incremented value, the one app_fsk_18.c's "++current_bit_no" leaves.
Advance_noreset(d) ==
  LET n == d.current_bit_no + 1
  IN [d EXCEPT !.current_bit_no = n,
               !.ptr = IF n = 10 THEN @ + 1 ELSE @]
Advance_nine(d) ==
  LET n == d.current_bit_no + 1
  IN [d EXCEPT !.current_bit_no = IF n = 9 THEN 0 ELSE n,
               !.ptr = IF n = 9 THEN @ + 1 ELSE @]
Advance(d) ==
  LET n == d.current_bit_no + 1
  IN [d EXCEPT !.current_bit_no = IF n = 10 THEN 0 ELSE n,
               !.ptr = IF n = 10 THEN @ + 1 ELSE @]

\* else return 1
Idle_restart(d) == [st |-> [d EXCEPT !.ptr = 0], bit |-> 1]
Idle(d) == [st |-> d, bit |-> 1]

\* one call of put_bit: the session after it and the bit returned
put_bit(d) ==
  IF Live(d)
  THEN LET data == IF d.current_bit_no # 0 /\ d.current_bit_no # 9
                   THEN DataBit(ByteAt(d), d.current_bit_no)
                   ELSE IF d.current_bit_no # 9 THEN 0 ELSE 1
       IN [st |-> Advance(d), bit |-> Truth(data)]
  ELSE Idle(d)

TxUnchanged == UNCHANGED <<out, bits>>
RxUnchanged == UNCHANGED <<in, mem, pushed, nstatus>>

\* the modulator pulls one bit
PutBit ==
  /\ \/ /\ pc \in {"tx_unit", "rt_line"}
        /\ Len(bits) < (out.bytes2send + 1) * 10 + MaxIdle
     \/ pc = "tx_fill" /\ drv.need > 0
  /\ out' = put_bit(out).st
  /\ bits' = Append(bits, put_bit(out).bit)
  /\ call' = [op |-> "put_bit", arg |-> 0]
  /\ drv' = IF pc = "tx_fill" THEN [drv EXCEPT !.need = @ - 1] ELSE drv
  /\ UNCHANGED pc
  /\ RxUnchanged

InitTx ==
  /\ pc = "tx_unit"
  /\ \E data \in Messages : out = NewTx(data)
  /\ bits = <<>>
  /\ in = NoRx /\ mem = "ok" /\ pushed = <<>> /\ nstatus = 0
  /\ call = NoCall
  /\ drv = NoDrv

NextTx == PutBit

SpecTx == InitTx /\ [][NextTx]_vars

(***************************************************************************)
(* get_bit and rx_status: the receive session.                             *)
(***************************************************************************)
\* the characters the demodulator delivers: NUL, 'H', a byte with bit 7 set
RxBytes == {0, 72, 200}
\* the modem's status reports: carrier down (-1), carrier up (-2)
StatusCodes == {-1, -2}

\* in as fskRX_exec sets it up before the receive loop; the buffer is zeroed
NewRx_nomemset(quit) ==
  [ptr |-> 0, quitoncarrierlost |-> quit, FSK_eof |-> 0,
   buffer |-> [i \in 0..(Capacity - 1) |-> 200]]
NewRx(quit) ==
  [ptr |-> 0, quitoncarrierlost |-> quit, FSK_eof |-> 0,
   buffer |-> [i \in 0..(Capacity - 1) |-> 0]]

\* if ((status == -1) && (data->quitoncarrierlost)) data->FSK_eof = 1;
rx_status_assign(d, status) ==
  [d EXCEPT !.FSK_eof =
              IF status = -1 /\ d.quitoncarrierlost # 0 THEN 1 ELSE 0]
rx_status_anystatus(d, status) ==
  IF status < 0 /\ d.quitoncarrierlost # 0
  THEN [d EXCEPT !.FSK_eof = 1]
  ELSE d
rx_status_always(d, status) ==
  IF status = -1 THEN [d EXCEPT !.FSK_eof = 1] ELSE d
rx_status(d, status) ==
  IF status = -1 /\ d.quitoncarrierlost # 0
  THEN [d EXCEPT !.FSK_eof = 1]
  ELSE d

\* *(data->buffer + data->ptr++) = (char) bit & 0xff, the store being inside
\* the buffer
Store_preincrement(d, bit) ==
  [d EXCEPT !.buffer =
              IF d.ptr + 1 < Capacity
              THEN [d.buffer EXCEPT ![d.ptr + 1] = ToChar(bit)]
              ELSE d.buffer,
            !.ptr = @ + 1]
Store(d, bit) ==
  [d EXCEPT !.buffer[d.ptr] = ToChar(bit), !.ptr = @ + 1]

\* one call of get_bit: the outcomes it can have, each the session and the
\* state of memory after it.  get_bit does not compare ptr with the size of
\* the buffer: a store at or past buffer + Capacity is outside the allocation,
\* and either lands in memory that is not the session's or faults.
get_bit(d, m, bit) ==
  IF bit < 0
  THEN {[in |-> rx_status(d, bit), mem |-> m]}
  ELSE IF d.ptr < Capacity
  THEN {[in |-> Store(d, bit), mem |-> m]}
  ELSE {[in |-> [d EXCEPT !.ptr = @ + 1], mem |-> "stray"],
        [in |-> d, mem |-> "fault"]}

\* the demodulator calls get_bit with a character or with a status
GetBit ==
  /\ pc \in {"rx_unit", "rx_feed"}
  /\ mem # "fault"
  /\ \E bit \in RxBytes \cup StatusCodes :
       /\ bit >= 0 => Len(pushed) < Capacity + MaxOver
       /\ bit < 0 => nstatus < MaxStatus
       /\ \E o \in get_bit(in, mem, bit) : in' = o.in /\ mem' = o.mem
       /\ pushed' = IF bit >= 0 THEN Append(pushed, bit) ELSE pushed
       /\ nstatus' = IF bit < 0 THEN nstatus + 1 ELSE nstatus
       /\ call' = [op |-> "get_bit", arg |-> bit]
  /\ UNCHANGED <<pc, drv>>
  /\ TxUnchanged

\* the demodulator calls the status handler
RxStatus ==
  /\ pc \in {"rx_unit", "rx_feed"}
  /\ mem # "fault"
  /\ nstatus < MaxStatus
  /\ \E status \in StatusCodes :
       /\ in' = rx_status(in, status)
       /\ call' = [op |-> "rx_status", arg |-> status]
  /\ nstatus' = nstatus + 1
  /\ UNCHANGED <<pc, drv, mem, pushed>>
  /\ TxUnchanged

\* quitoncarrierlost is 1 (fskRX_exec) or 0 (what option h stores)
InitRx ==
  /\ pc = "rx_unit"
  /\ \E quit \in {0, 1} : in = NewRx(quit)
  /\ mem = "ok" /\ pushed = <<>> /\ nstatus = 0
  /\ out = NoTx /\ bits = <<>>
  /\ call = NoCall
  /\ drv = NoDrv

NextRx == GetBit \/ RxStatus

SpecRx == InitRx /\ [][NextRx]_vars

(***************************************************************************)
(* fskTX_exec: the SendFSK application.                                    *)
(***************************************************************************)
\* the arguments SendFSK is called with: the empty string, and messages
TxArguments == UNION { [1..n -> SampleChars] : n \in 0..MaxLen }

\* put_bit calls per fsk_tx(caller_tx, caller_amp, BLOCK_LEN): 160 samples
\* at 8000 samples/s are 6 bit times at 300 baud (FSK_BELL103CH2, app_fsk.c)
\* and 24 at 1200 baud (FSK_BELL202, app_fsk_18.c)
BlockBits == {6, 24}

\* if (ast_strlen_zero(data)) return -1
ast_strlen_zero_never(data) == FALSE
ast_strlen_zero(data) == Len(data) = 0

\* while (out->ptr < out->bytes2send)
TxLoopTest_pastend(d) ==
  IF d.ptr <= d.bytes2send + 1 THEN "tx_wait" ELSE "tx_trail"
TxLoopTest(d) == IF d.ptr < d.bytes2send THEN "tx_wait" ELSE "tx_trail"

\* fskTX_exec up to the loop: the argument check, out, fsk_tx_init
SendFSK ==
  /\ pc = "idle"
  /\ \E data \in TxArguments, n \in BlockBits :
       IF ast_strlen_zero(data)
       THEN /\ pc' = "done"
            /\ drv' = [drv EXCEPT !.app = "SendFSK", !.data = data,
                                   !.ret = -1, !.why = "no_argument"]
            /\ out' = out
       ELSE /\ out' = NewTx(data)
            /\ pc' = TxLoopTest(NewTx(data))
            /\ drv' = [drv EXCEPT !.app = "SendFSK", !.data = data,
                                   !.block = n, !.heap = @ \cup {"out"}]
  /\ UNCHANGED <<bits, call>>
  /\ RxUnchanged

\* res = ast_waitfor(chan, 1000); fr = ast_read(chan); a null frame leaves
\* the loop, any other frame starts fsk_tx
TxRead ==
  /\ pc = "tx_wait"
  /\ \E frame \in {"null", "voice", "dtmf"} :
       IF frame = "null"
       THEN /\ drv' = [drv EXCEPT !.fr = "null", !.res = -1,
                                   !.why = "hangup", !.nwait = @ + 1]
            /\ pc' = "tx_trail"
       ELSE /\ drv' = [drv EXCEPT !.fr = "live", !.frames = @ + 1,
                                   !.need = drv.block, !.nwait = @ + 1]
            /\ pc' = "tx_fill"
  /\ UNCHANGED <<call>>
  /\ TxUnchanged
  /\ RxUnchanged

\* fsk_tx has returned; ast_write(chan, &f), then the loop test.  fr is
\* freed only when the write fails.
TxWrite ==
  /\ pc = "tx_fill"
  /\ drv.need = 0
  /\ \E written \in BOOLEAN :
       IF written
       THEN /\ pc' = TxLoopTest(out)
            /\ drv' = [drv EXCEPT !.res = 0, !.nwrite = @ + 1,
                          !.why = IF TxLoopTest(out) = "tx_trail"
                                  THEN "sent" ELSE @]
       ELSE /\ pc' = "tx_trail"
            /\ drv' = [drv EXCEPT !.res = -1, !.fr = "freed",
                                   !.frames = @ - 1, !.nwrite = @ + 1,
                                   !.why = "write_failure"]
  /\ UNCHANGED <<call>>
  /\ TxUnchanged
  /\ RxUnchanged

\* after the loop: the silent block, one more ast_waitfor / ast_read /
\* ast_write, and return 0.  Nothing reads the value ast_waitfor leaves in
\* res; it is taken as 0.
TxTrail ==
  /\ pc = "tx_trail"
  /\ \E frame \in {"null", "voice"}, written \in BOOLEAN :
       IF frame = "null"
       THEN drv' = [drv EXCEPT !.fr = "null", !.res = 0, !.ret = 0,
                               !.trail = "hangup", !.nwait = @ + 1]
       ELSE IF written
       THEN drv' = [drv EXCEPT !.fr = "live", !.frames = @ + 1,
                               !.res = 0, !.ret = 0, !.trail = "written",
                               !.nwait = @ + 1, !.nwrite = @ + 1]
       ELSE drv' = [drv EXCEPT !.fr = "freed", !.res = -1, !.ret = 0,
                               !.trail = "write_failure",
                               !.nwait = @ + 1, !.nwrite = @ + 1]
  /\ pc' = "done"
  /\ UNCHANGED <<call>>
  /\ TxUnchanged
  /\ RxUnchanged

(***************************************************************************)
(* fskRX_exec: the ReceiveFSK application.                                 *)
(***************************************************************************)
Alive == mem # "fault"

\* memset(in->buffer, 0, ...)
ZeroBuffer == [i \in 0..(Capacity - 1) |-> 0]

\* the bytes of the buffer before its first NUL
RECURSIVE Text(_, _)
Text(buffer, i) ==
  IF i >= Capacity \/ buffer[i] = 0 THEN <<>>
  ELSE <<buffer[i]>> \o Text(buffer, i + 1)

Terminated(buffer) == \E i \in 0..(Capacity - 1) : buffer[i] = 0

\* what a reader of the buffer as a C string finds after its last byte when
\* the buffer holds no NUL: nothing more, or bytes that are not the buffer's
Beyond(buffer) ==
  IF Terminated(buffer) THEN {<<>>}
  ELSE {<<>>} \cup {<<c>> : c \in SampleChars}

\* fskRX_exec up to ast_answer: the argument check, in, the options.
\* malloc leaves in's fields unset; none is read before it is assigned, and
\* option h assigns quitoncarrierlost = 0.
ReceiveFSK ==
  /\ pc = "idle"
  /\ \E argument \in BOOLEAN, h \in BOOLEAN, s \in BOOLEAN, unset \in {0, 1} :
       IF ~argument
       THEN /\ pc' = "done"
            /\ drv' = [drv EXCEPT !.app = "ReceiveFSK", !.ret = -1,
                                   !.why = "no_argument"]
            /\ in' = in
       ELSE /\ pc' = "rx_answer"
            /\ in' = [in EXCEPT !.quitoncarrierlost = IF h THEN 0 ELSE unset]
            /\ drv' = [drv EXCEPT !.app = "ReceiveFSK", !.optH = h,
                                   !.optS = s, !.heap = @ \cup {"in"}]
  /\ UNCHANGED <<mem, pushed, nstatus, call>>
  /\ TxUnchanged

\* from ast_channel_state to fsk_rx_set_modem_status_handler: answer the
\* channel, set the read format, initialise in and its buffer
RxSetup ==
  /\ pc = "rx_answer"
  /\ \E up \in BOOLEAN, answered \in BOOLEAN, format \in BOOLEAN :
       IF ~up /\ ~answered
       THEN /\ pc' = "done"
            /\ drv' = [drv EXCEPT !.res = -1, !.ret = 0,
                                   !.why = "no_answer",
                                   !.heap = @ \ {"in"}]
            /\ in' = in
       ELSE IF ~format
       THEN /\ pc' = "done"
            /\ drv' = [drv EXCEPT !.res = -1, !.ret = -1,
                                   !.why = "no_format",
                                   !.chanvar = Append(@, <<>>)]
            /\ in' = in
       ELSE /\ pc' = "rx_wait"
            /\ in' = [in EXCEPT !.FSK_eof = 0, !.quitoncarrierlost = 1,
                                 !.buffer = ZeroBuffer, !.ptr = 0]
            /\ drv' = [drv EXCEPT !.res = 0, !.silgen = drv.optS,
                                   !.chanvar = Append(@, <<>>),
                                   !.heap = @ \cup {"buffer"}]
  /\ UNCHANGED <<mem, pushed, nstatus, call>>
  /\ TxUnchanged

\* while (ast_waitfor(chan, -1) > -1) { f = ast_read(chan); if (!f) ...
RxRead ==
  /\ pc = "rx_wait"
  /\ \E got \in {"wait_failure", "null", "voice", "other"} :
       CASE got = "wait_failure" ->
              /\ pc' = "rx_end"
              /\ drv' = [drv EXCEPT !.why = "wait_failure",
                                     !.nwait = @ + 1]
         [] got = "null" ->
              /\ pc' = "rx_end"
              /\ drv' = [drv EXCEPT !.fr = "null", !.res = -1,
                                     !.why = "hangup", !.nwait = @ + 1]
         [] OTHER ->
              /\ drv.nread < MaxFrames
              /\ pc' = IF got = "voice" THEN "rx_feed" ELSE "rx_check"
              /\ drv' = [drv EXCEPT !.fr = "live", !.frames = @ + 1,
                                     !.nread = @ + 1, !.nwait = @ + 1]
  /\ UNCHANGED <<call>>
  /\ TxUnchanged
  /\ RxUnchanged

\* fsk_rx returns
RxFeedDone ==
  /\ pc = "rx_feed"
  /\ Alive
  /\ pc' = "rx_check"
  /\ UNCHANGED <<drv, call>>
  /\ TxUnchanged
  /\ RxUnchanged

\* if (in->FSK_eof != 0) break; otherwise ast_write(chan, f) and
\* ast_frfree(f)
RxCheck_writefirst ==
  /\ pc = "rx_check"
  /\ \E written \in BOOLEAN :
       IF written /\ in.FSK_eof = 0
       THEN /\ pc' = "rx_wait"
            /\ drv' = [drv EXCEPT !.fr = "freed", !.frames = @ - 1,
                                   !.nwrite = @ + 1]
       ELSE /\ pc' = "rx_end"
            /\ drv' = [drv EXCEPT !.fr = "freed", !.frames = @ - 1,
                                   !.nwrite = @ + 1,
                                   !.res = IF written THEN @ ELSE -1,
                                   !.why = IF written THEN "eof"
                                           ELSE "write_failure"]
  /\ UNCHANGED <<call>>
  /\ TxUnchanged
  /\ RxUnchanged
RxCheck ==
  /\ pc = "rx_check"
  /\ IF in.FSK_eof # 0
     THEN /\ pc' = "rx_end"
          /\ drv' = [drv EXCEPT !.why = "eof"]
     ELSE \E written \in BOOLEAN :
            IF written
            THEN /\ pc' = "rx_wait"
                 /\ drv' = [drv EXCEPT !.fr = "freed", !.frames = @ - 1,
                                        !.nwrite = @ + 1]
            ELSE /\ pc' = "rx_end"
                 /\ drv' = [drv EXCEPT !.fr = "freed", !.frames = @ - 1,
                                        !.nwrite = @ + 1,
                                        !.res = -1, !.why = "write_failure"]
  /\ UNCHANGED <<call>>
  /\ TxUnchanged
  /\ RxUnchanged

\* after the loop: if (!f) res = -1; the channel variable is set to the
\* buffer read as a C string; buffer and in are freed; return 0.
\* f has no value when ast_waitfor failed before the first ast_read.
RxEnd ==
  /\ pc = "rx_end"
  /\ \E fnull \in BOOLEAN, tail \in Beyond(in.buffer), fault \in BOOLEAN :
       /\ drv.fr # "uninit" => (fnull <=> drv.fr = "null")
       /\ fault => ~Terminated(in.buffer)
       /\ IF fault
          THEN /\ mem' = "fault"
               /\ UNCHANGED <<pc, drv>>
          ELSE /\ mem' = mem
               /\ pc' = "done"
               /\ drv' = [drv EXCEPT
                             !.res = IF fnull THEN -1 ELSE @,
                             !.chanvar = Append(@, Text(in.buffer, 0) \o tail),
                             !.heap = @ \ {"buffer", "in"},
                             !.silgen = FALSE,
                             !.ret = 0]
  /\ UNCHANGED <<in, pushed, nstatus, call>>
  /\ TxUnchanged

(***************************************************************************)
(* The applications, as the dialplan calls them.                           *)
(***************************************************************************)
Init ==
  /\ pc = "idle"
  /\ out = NoTx /\ bits = <<>>
  /\ in = NoRx /\ mem = "ok" /\ pushed = <<>> /\ nstatus = 0
  /\ call = NoCall
  /\ drv = NoDrv

Next ==
  \/ SendFSK \/ TxRead \/ PutBit \/ TxWrite \/ TxTrail
  \/ ReceiveFSK \/ RxSetup \/ RxRead \/ GetBit \/ RxStatus
  \/ RxFeedDone \/ RxCheck \/ RxEnd

Spec == Init /\ [][Next]_vars

\* SendFSK alone, on a channel whose ast_waitfor and ast_read always return
\* and whose thread keeps running: whatever step fskTX_exec has before it is
\* eventually taken
NextSend == SendFSK \/ TxRead \/ PutBit \/ TxWrite \/ TxTrail

SpecSend == Init /\ [][NextSend]_vars /\ WF_vars(NextSend)

(***************************************************************************)
(* A transmitter's put_bit feeding a receiver's get_bit and rx_status      *)
(* through the line: the modulator pulls the bits, the far end's           *)
(* demodulator, set to FSK_FRAME_MODE_8N1_FRAMES, turns them back into     *)
(* characters.                                                             *)
(***************************************************************************)
\* the messages sent over the line: one to MaxLen characters, none of them 0
LineMessages == UNION { [1..n -> SampleChars] : n \in 1..MaxLen }

\* the character of a frame: its eight data bits, the first sent being bit 0
CharOf(frame) ==
  frame[2] + 2 * frame[3] + 4 * frame[4] + 8 * frame[5] + 16 * frame[6]
    + 32 * frame[7] + 64 * frame[8] + 128 * frame[9]

\* the demodulator looks at the next bit of the line: a 1 outside a frame is
\* the idle line; a 0 starts a frame of ten bits, whose character goes to
\* get_bit when the tenth bit is the stop bit 1 and is dropped when it is not
Demodulate ==
  /\ pc = "rt_line"
  /\ mem # "fault"
  /\ drv.rxpos < Len(bits)
  /\ IF bits[drv.rxpos + 1] = 1
     THEN /\ drv' = [drv EXCEPT !.rxpos = @ + 1]
          /\ UNCHANGED <<in, mem, pushed, call>>
     ELSE /\ Len(bits) >= drv.rxpos + 10
          /\ LET frame == SubSeq(bits, drv.rxpos + 1, drv.rxpos + 10)
             IN IF frame[10] = 1
                THEN /\ \E o \in get_bit(in, mem, CharOf(frame)) :
                          in' = o.in /\ mem' = o.mem
                     /\ pushed' = Append(pushed, CharOf(frame))
                     /\ call' = [op |-> "get_bit", arg |-> CharOf(frame)]
                     /\ drv' = [drv EXCEPT !.rxpos = @ + 10]
                ELSE /\ drv' = [drv EXCEPT !.rxpos = @ + 1]
                     /\ UNCHANGED <<in, mem, pushed, call>>
  /\ UNCHANGED <<pc, nstatus>>
  /\ TxUnchanged

\* the transmitter has sent everything and stops: the demodulator, having
\* consumed the line, reports the loss of carrier to rx_status
CarrierLost ==
  /\ pc = "rt_line"
  /\ mem # "fault"
  /\ out.ptr > out.bytes2send
  /\ drv.rxpos = Len(bits)
  /\ in' = rx_status(in, -1)
  /\ call' = [op |-> "rx_status", arg |-> -1]
  /\ nstatus' = nstatus + 1
  /\ pc' = "rt_done"
  /\ UNCHANGED <<drv, mem, pushed>>
  /\ TxUnchanged

\* out as fskTX_exec sets it up for a message, in as fskRX_exec sets it up
InitLine ==
  /\ pc = "rt_line"
  /\ \E data \in LineMessages :
       /\ out = NewTx(data)
       /\ drv = [NoDrv EXCEPT !.data = data]
  /\ bits = <<>>
  /\ in = NewRx(1) /\ mem = "ok" /\ pushed = <<>> /\ nstatus = 0
  /\ call = NoCall

NextLine == PutBit \/ Demodulate \/ CarrierLost

SpecLine == InitLine /\ [][NextLine]_vars

(***************************************************************************)
(* Properties of put_bit (under SpecTx).                                   *)
(***************************************************************************)
\* the 8N1 frame of a byte: start bit, eight data bits from bit 0 up, stop bit
FrameOf(b) ==
  <<0>> \o [k \in 1..8 |-> (b \div (2 ^ (k - 1))) % 2] \o <<1>>

\* the put_bit calls that carry the message and its terminator
FramedBits == (out.bytes2send + 1) * 10

Exhausted == out.ptr > out.bytes2send

\* C1: the ten calls made for any byte of the buffer, the first at bit phase
\* 0, return 0, then the byte's bits 0 to 7 in that order, then 1
C1_FrameIsStartDataStop ==
  \A j \in 0..out.bytes2send :
    Len(bits) >= 10 * (j + 1) =>
      SubSeq(bits, 10 * j + 1, 10 * j + 10) = FrameOf(out.buffer[j + 1])

\* a whole frame has been pulled for a byte whose bit 7 is set
C1_Witness ==
  /\ pc = "tx_unit"
  /\ out.buffer[1] >= 128
  /\ Len(bits) = 10

\* C2: a session for a message of length L is exhausted from the
\* (L+1)*10-th call of put_bit on and not before, and every later call
\* returns 1
C2_ExhaustedAfterFramedBits ==
  /\ Exhausted <=> Len(bits) >= FramedBits
  /\ \A i \in 1..Len(bits) : i > FramedBits => bits[i] = 1

\* a two-byte message has been sent and put_bit was called again
C2_Witness ==
  /\ pc = "tx_unit"
  /\ out.bytes2send = 2
  /\ Len(bits) > FramedBits

\* C3: the ten calls made while ptr = bytes2send return 0 nine times, then 1
C3_TerminatorFrame ==
  Len(bits) >= FramedBits =>
    SubSeq(bits, FramedBits - 9, FramedBits) = <<0, 0, 0, 0, 0, 0, 0, 0, 0, 1>>

\* the terminator of a two-byte message has just been pulled
C3_Witness ==
  /\ pc = "tx_unit"
  /\ out.bytes2send = 2
  /\ Len(bits) = FramedBits

\* C4: a call of put_bit on an exhausted session returns 1 and changes no
\* field of the session, which therefore stays exhausted
C4_ExhaustedIsAbsorbing ==
  [][(Exhausted /\ Len(bits') = Len(bits) + 1) =>
       (out' = out /\ bits'[Len(bits')] = 1 /\ Exhausted')]_vars

\* put_bit has been called twice on an exhausted session
C4_Witness ==
  /\ pc = "tx_unit"
  /\ Exhausted
  /\ Len(bits) = FramedBits + 2

(***************************************************************************)
(* Properties of get_bit and rx_status (under SpecRx).                     *)
(***************************************************************************)
Min(a, b) == IF a < b THEN a ELSE b

\* this step delivers the status code to the session, by either route
StatusStep(code) ==
  /\ nstatus' = nstatus + 1
  /\ call'.arg = code

\* this step calls get_bit with a character
ByteStep == Len(pushed') = Len(pushed) + 1

\* C5: with quitoncarrierlost set, a carrier-lost status (-1) that follows
\* get_bit calls with v1..vn leaves FSK_eof = 1, ptr = n and the buffer
\* holding v1..vn from index 0, and the status call itself changes neither
\* ptr nor the buffer
C5_BytesThenCarrierLost ==
  [][(StatusStep(-1) /\ in.quitoncarrierlost = 1) =>
       /\ in'.FSK_eof = 1
       /\ in'.ptr = Len(pushed)
       /\ \A i \in 0..(Min(Len(pushed), Capacity) - 1) :
            in'.buffer[i] = pushed[i + 1]
       /\ in'.ptr = in.ptr
       /\ in'.buffer = in.buffer]_vars

\* two characters were received, then carrier loss was reported
C5_Witness ==
  /\ pc = "rx_unit"
  /\ in.quitoncarrierlost = 1
  /\ Len(pushed) = 2
  /\ call.arg = -1
  /\ in.FSK_eof = 1
  /\ in.ptr = 2
  /\ in.buffer[0] = pushed[1] /\ in.buffer[1] = pushed[2]

\* C6: with quitoncarrierlost clear, FSK_eof stays 0 whatever get_bit and
\* rx_status are called with
C6_NoEofWithoutPolicy ==
  in.quitoncarrierlost = 0 => in.FSK_eof = 0

\* carrier loss has been reported through get_bit and through rx_status
C6_Witness ==
  /\ pc = "rx_unit"
  /\ in.quitoncarrierlost = 0
  /\ nstatus = 2
  /\ call = [op |-> "get_bit", arg |-> -1]
  /\ Len(pushed) > 0
  /\ in.FSK_eof = 0

\* C8: ptr never exceeds Capacity - 1
C8_CursorBelowCapacity == in.ptr <= Capacity - 1

\* C9: get_bit called with a character while ptr = Capacity - 1 changes
\* neither ptr nor the buffer
C9_FullBufferRejects ==
  [][(ByteStep /\ in.ptr = Capacity - 1) =>
       (in'.ptr = in.ptr /\ in'.buffer = in.buffer)]_vars

(***************************************************************************)
(* Properties of the applications (under Spec).                            *)
(***************************************************************************)
\* fskRX_exec is inside its frame loop
InReceiveLoop == pc \in {"rx_wait", "rx_feed", "rx_check"}

\* C7: throughout the receive loop quitoncarrierlost is 0 when option h was
\* given and 1 when it was not, and with option h the loop is never left
\* because of carrier loss
C7_OptionHonoured ==
  /\ InReceiveLoop => in.quitoncarrierlost = (IF drv.optH THEN 0 ELSE 1)
  /\ (drv.app = "ReceiveFSK" /\ drv.optH) => drv.why # "eof"

\* C10: an application whose frame loop ended on a missing inbound frame or
\* on a failed ast_write returns a failure (non-zero) result
C10_FailureReturned ==
  (pc = "done" /\ drv.why \in {"hangup", "write_failure"}) => drv.ret # 0

\* fskTX_exec has left its frame loop with neither a hangup nor a failed write
NormalTransmit ==
  /\ drv.app = "SendFSK"
  /\ pc \in {"tx_trail", "done"}
  /\ drv.why = "sent"

\* C11: when the frame loop of a normal transmit is left, ptr is past
\* bytes2send and put_bit has been called for every bit of the message's and
\* the terminator's frames
C11_TerminatorPulledBeforeTrail ==
  NormalTransmit => (Exhausted /\ Len(bits) >= FramedBits)

(***************************************************************************)
(* Properties of the line (under SpecLine).                                *)
(***************************************************************************)
\* C12: when the bits put_bit returns for a message without a 0 character
\* have gone through the 8N1 demodulator into get_bit and the loss of carrier
\* has then been reported to rx_status, with quitoncarrierlost set, FSK_eof is
\* 1, get_bit was called with the message's characters and then with 0, and
\* the buffer holds the message followed by zeros (as far as the buffer
\* reaches)
C12_RoundTrip ==
  pc = "rt_done" =>
    /\ in.FSK_eof = 1
    /\ pushed = Append(drv.data, 0)
    /\ in.ptr = Len(drv.data) + 1
    /\ \A i \in 0..(Capacity - 1) :
         in.buffer[i] = IF i < Len(drv.data) THEN drv.data[i + 1] ELSE 0

\* "HI" has gone over the line and the carrier was lost
C12_Witness ==
  /\ pc = "rt_done"
  /\ drv.data = <<72, 73>>
  /\ in.buffer[0] = 72 /\ in.buffer[1] = 73 /\ in.buffer[2] = 0
  /\ in.FSK_eof = 1

\* the value fskRX_exec last gave the channel variable
HandedBack == drv.chanvar[Len(drv.chanvar)]

\* fskRX_exec has returned after its frame loop
ReceiveLoopLeft ==
  /\ drv.app = "ReceiveFSK"
  /\ pc = "done"
  /\ drv.why \notin {"no_argument", "no_answer", "no_format"}

\* C13: the frame loop is left only on FSK_eof, on a missing inbound frame or
\* on a failed ast_write, and when fskRX_exec has then returned the channel
\* variable holds the bytes of the buffer, none added
C13_BufferHandedBack ==
  /\ pc = "rx_end" =>
       drv.why \in {"eof", "hangup", "wait_failure", "write_failure"}
  /\ ReceiveLoopLeft =>
       /\ drv.why \in {"eof", "hangup", "wait_failure", "write_failure"}
       /\ HandedBack = Text(in.buffer, 0)
       /\ "buffer" \notin drv.heap

\* C14: SendFSK called with an empty message has returned -1, with no
\* transmit_buffer_s allocated or set up, no put_bit call, and no ast_waitfor,
\* ast_read or ast_write made
C14_EmptyMessageRefused ==
  (drv.app = "SendFSK" /\ drv.data = <<>>) =>
    /\ pc = "done"
    /\ drv.ret = -1
    /\ out = NoTx /\ "out" \notin drv.heap
    /\ bits = <<>>
    /\ drv.nwait = 0 /\ drv.nwrite = 0 /\ drv.frames = 0

\* SendFSK was called with an empty message and has returned
C14_Witness ==
  /\ drv.app = "SendFSK"
  /\ drv.data = <<>>
  /\ drv.why = "no_argument"
  /\ pc = "done"
  /\ drv.ret = -1

\* C15: in the receive loop a frame is read, then fed to the demodulator,
\* then FSK_eof is tested, and only then is a frame written: while a frame is
\* being fed or FSK_eof tested, one frame fewer has been written than read;
\* back at ast_waitfor as many have been written as read; and a loop left on
\* FSK_eof has written one frame fewer than it has read
C15_ReadFeedCheckWrite ==
  drv.app = "ReceiveFSK" =>
    /\ pc \in {"rx_feed", "rx_check"} =>
         (drv.fr = "live" /\ drv.nwrite = drv.nread - 1)
    /\ pc = "rx_wait" => drv.nwrite = drv.nread
    /\ drv.why = "eof" => drv.nwrite = drv.nread - 1
    /\ drv.why \in {"hangup", "wait_failure", "write_failure"} =>
         drv.nwrite = drv.nread

\* the second frame read brought the loss of carrier: two frames read, one
\* written
C15_Witness ==
  /\ drv.app = "ReceiveFSK"
  /\ pc = "done"
  /\ drv.why = "eof"
  /\ drv.nread = 2
  /\ drv.nwrite = 1

(***************************************************************************)
(* Invariants of the sessions.                                             *)
(***************************************************************************)
\* C16: ptr is the number of characters get_bit was called with; the buffer
\* holds them in order below ptr and zeros from ptr on (for the indices
\* inside the buffer); a get_bit call with a character adds 1 to ptr and
\* a call of rx_status leaves ptr as it was
C16_BufferIsWhatWasPushed ==
  /\ [](mem # "fault" =>
          /\ in.ptr = Len(pushed)
          /\ \A i \in 0..(Capacity - 1) :
               in.buffer[i] = IF i < in.ptr THEN pushed[i + 1] ELSE 0)
  /\ [][/\ (ByteStep /\ mem' # "fault") => in'.ptr = in.ptr + 1
        /\ nstatus' = nstatus + 1 => in'.ptr = in.ptr]_vars

\* two characters received and a status reported: the buffer holds the two
\* and a zero after them
C16_Witness ==
  /\ pc = "rx_unit"
  /\ Len(pushed) = 2
  /\ nstatus = 1
  /\ call.op = "rx_status"
  /\ in.ptr = 2
  /\ in.buffer[0] = 200 /\ in.buffer[1] = 72 /\ in.buffer[2] = 0

\* C17: FSK_eof is 0 in a new session, and no call of get_bit or rx_status
\* takes it from 1 back to 0
C17_EofNeverReset ==
  /\ []((Len(pushed) = 0 /\ nstatus = 0) => in.FSK_eof = 0)
  /\ [][in.FSK_eof = 1 => in'.FSK_eof = 1]_vars

\* FSK_eof was set by the loss of carrier and another status came after it
C17_Witness ==
  /\ pc = "rx_unit"
  /\ in.FSK_eof = 1
  /\ nstatus = 2
  /\ call.arg = -2
  /\ Len(pushed) > 0

\* C18: a status other than -1, whether it comes through rx_status or
\* through get_bit, changes no field of the session, with quitoncarrierlost
\* set or clear
C18_OtherStatusIgnored ==
  [][(nstatus' = nstatus + 1 /\ call'.arg # -1) =>
       (in' = in /\ mem' = mem /\ pushed' = pushed)]_vars

\* a status other than -1 was reported to a session that stops on the loss
\* of carrier, and FSK_eof is still 0
C18_Witness ==
  /\ pc = "rx_unit"
  /\ in.quitoncarrierlost = 1
  /\ nstatus = 1
  /\ call = [op |-> "rx_status", arg |-> -2]
  /\ Len(pushed) = 1
  /\ in.FSK_eof = 0

\* C19: current_bit_no is in 0..9 and ptr in 0..bytes2send + 1; a put_bit
\* call never lowers ptr, adds 1 to it exactly when it takes current_bit_no
\* from 9 to 0, and current_bit_no is 0 once ptr is past bytes2send
C19_TxSessionInvariant ==
  /\ [](/\ out.current_bit_no \in 0..9
        /\ out.ptr \in 0..(out.bytes2send + 1)
        /\ Exhausted => out.current_bit_no = 0)
  /\ [][/\ out'.ptr \in {out.ptr, out.ptr + 1}
        /\ out'.ptr = out.ptr + 1 <=>
             (out.current_bit_no = 9 /\ out'.current_bit_no = 0
                /\ bits' = Append(bits, 1) /\ ~Exhausted)]_vars

\* the stop bit of the last character was just returned
C19_Witness ==
  /\ pc = "tx_unit"
  /\ out.bytes2send = 2
  /\ out.ptr = 2
  /\ out.current_bit_no = 0
  /\ Len(bits) = 20
  /\ bits[20] = 1

(***************************************************************************)
(* What the applications leave behind (under Spec).                        *)
(***************************************************************************)
\* C20: when SendFSK or ReceiveFSK has returned, nothing it allocated is
\* still allocated: not out, not in, not the receive buffer, and no frame
\* got from ast_read is left unfreed
C20_AllReleased ==
  pc = "done" => (drv.heap = {} /\ drv.frames = 0)

(***************************************************************************)
(* Termination of SendFSK (under SpecSend).                                *)
(***************************************************************************)
\* C21: fskTX_exec, once called, returns; its frame loop makes at most one
\* pass for each bit of the message's frames, so that with the one trailing
\* exchange it waits for a frame at most 10 * bytes2send + 1 times; and the
\* trailing exchange is made once, fskTX_exec returning after it
C21_TransmitTerminates ==
  /\ (drv.app = "SendFSK") ~> (pc = "done")
  /\ [](drv.app = "SendFSK" => drv.nwait <= 10 * out.bytes2send + 1)
  /\ [][pc = "tx_trail" => pc' = "done"]_vars

\* a message of three characters was sent, the trailing frame written, and
\* fskTX_exec has returned
C21_Witness ==
  /\ drv.app = "SendFSK"
  /\ Len(drv.data) = 3
  /\ drv.why = "sent"
  /\ drv.trail = "written"
  /\ drv.nwait > 1
  /\ pc = "done"

(***************************************************************************)
(* The received message after FSK_eof (under Spec).                        *)
(***************************************************************************)
\* C22: once FSK_eof is 1, a get_bit call with a character changes neither
\* the buffer nor ptr
C22_FrozenAfterEof ==
  [][(in.FSK_eof = 1 /\ ByteStep) =>
       (in'.buffer = in.buffer /\ in'.ptr = in.ptr)]_vars

====
